---- MODULE Spec2Model ----
(***************************************************************************)
(* dothub (src/main.rs): the catalog command cmd_hub and what it calls:    *)
(* fetch_text, the flattening of the registry, the star lookup             *)
(* (github_stars_batch over GraphQL, github_stars over REST), the URL      *)
(* resolution parse_github_owner_repo, the ranking and the table.          *)
(*                                                                         *)
(* A Rust String is a sequence of one-character strings, so that           *)
(* to_lowercase, contains, strip_prefix, strip_suffix, split and the URL   *)
(* parser are computed character by character.                             *)
(***************************************************************************)
EXTENDS Integers, Sequences, FiniteSets, TLC

(***************************************************************************)
(* Option<T>                                                               *)
(***************************************************************************)
None == [some |-> FALSE]
Some(x) == [some |-> TRUE, val |-> x]

(***************************************************************************)
(* Strings                                                                 *)
(***************************************************************************)
Upper == <<"A","B","C","D","E","F","G","H","I","J","K","L","M",
           "N","O","P","Q","R","S","T","U","V","W","X","Y","Z">>
Lower == <<"a","b","c","d","e","f","g","h","i","j","k","l","m",
           "n","o","p","q","r","s","t","u","v","w","x","y","z">>
Digits == <<"0","1","2","3","4","5","6","7","8","9">>

InSeq(c, s) == \E i \in 1..Len(s) : s[i] = c

ToLowerChar(c) ==
    IF InSeq(c, Upper)
    THEN Lower[CHOOSE i \in 1..Len(Upper) : Upper[i] = c]
    ELSE c

\* str::to_lowercase
ToLower(s) == [i \in 1..Len(s) |-> ToLowerChar(s[i])]

StartsWith(s, p) == Len(p) <= Len(s) /\ SubSeq(s, 1, Len(p)) = p

EndsWith(s, p) ==
    Len(p) <= Len(s) /\ SubSeq(s, Len(s) - Len(p) + 1, Len(s)) = p

\* str::contains
Contains(s, p) ==
    \E i \in 1..(Len(s) - Len(p) + 1) : SubSeq(s, i, i + Len(p) - 1) = p

\* str::strip_prefix
StripPrefix(s, p) ==
    IF StartsWith(s, p) THEN Some(SubSeq(s, Len(p) + 1, Len(s))) ELSE None

\* str::strip_suffix
StripSuffix(s, p) ==
    IF EndsWith(s, p) THEN Some(SubSeq(s, 1, Len(s) - Len(p))) ELSE None

\* Option::or_else
OrElse(a, b) == IF a.some THEN a ELSE b

RECURSIVE SplitFrom(_, _, _, _)
SplitFrom(s, sep, i, cur) ==
    IF i > Len(s) THEN <<cur>>
    ELSE IF s[i] = sep THEN <<cur>> \o SplitFrom(s, sep, i + 1, <<>>)
    ELSE SplitFrom(s, sep, i + 1, Append(cur, s[i]))

\* str::split(char): always at least one part; "" splits into [""]
Split(s, sep) == SplitFrom(s, sep, 1, <<>>)

\* the index of the first sep in s, or Len(s) + 1
IndexOf(s, sep) ==
    IF InSeq(sep, s)
    THEN CHOOSE i \in 1..Len(s) : s[i] = sep /\ \A j \in 1..(i - 1) : s[j] # sep
    ELSE Len(s) + 1

DotGit == <<".", "g", "i", "t">>
GithubCom == <<"g","i","t","h","u","b",".","c","o","m">>
SshPrefix == <<"g","i","t","@">> \o GithubCom \o <<":">>

(***************************************************************************)
(* url::Url::parse, on the URLs of the model: [scheme]://[host][/path]     *)
(* with a special scheme (http, https), and strings with no scheme.        *)
(* A scheme is a letter followed by letters, digits, "+", "-" or ".", up   *)
(* to a ":"; a string without one is a relative URL and fails to parse     *)
(* (the SSH shorthand git@github.com:owner/repo has "@" before its ":").   *)
(* The host is lower-cased; the path keeps its case, and its "." and ".."  *)
(* segments are resolved as the URL standard says.                         *)
(***************************************************************************)
IsAlpha(c) == InSeq(c, Upper) \/ InSeq(c, Lower)
IsSchemeChar(c) == IsAlpha(c) \/ InSeq(c, Digits) \/ c \in {"+", "-", "."}

HasScheme(s) ==
    LET k == IndexOf(s, ":")
    IN  /\ k <= Len(s)
        /\ k > 1
        /\ IsAlpha(s[1])
        /\ \A i \in 1..(k - 1) : IsSchemeChar(s[i])

RECURSIVE NormalizeSegments(_, _, _)
\* raw: the path split at "/"; acc: the segments kept so far
NormalizeSegments(raw, i, acc) ==
    IF i > Len(raw) THEN acc
    ELSE
      LET seg == raw[i]
          last == (i = Len(raw))
      IN  IF seg = <<".", ".">>
          THEN LET popped == IF Len(acc) > 0 THEN SubSeq(acc, 1, Len(acc) - 1) ELSE acc
               IN  NormalizeSegments(raw, i + 1,
                                     IF last THEN Append(popped, <<>>) ELSE popped)
          ELSE IF seg = <<".">>
          THEN NormalizeSegments(raw, i + 1, IF last THEN Append(acc, <<>>) ELSE acc)
          ELSE NormalizeSegments(raw, i + 1, Append(acc, seg))

\* Ok: [ok |-> TRUE, domain |-> Option<String>, segs |-> Option<Seq(String)>]
UrlParse(link) ==
    IF ~HasScheme(link) THEN [ok |-> FALSE]
    ELSE
      LET k == IndexOf(link, ":")
          rest == SubSeq(link, k + 1, Len(link))
      IN  IF ~StartsWith(rest, <<"/", "/">>)
          THEN \* scheme:opaque, a URL that cannot be a base: no host, no segments
               [ok |-> TRUE, domain |-> None, segs |-> None]
          ELSE
            LET auth == SubSeq(rest, 3, Len(rest))
                h == IndexOf(auth, "/")
                host == ToLower(SubSeq(auth, 1, h - 1))
                path == SubSeq(auth, h + 1, Len(auth))
            IN  [ok |-> TRUE,
                 domain |-> Some(host),
                 segs |-> Some(NormalizeSegments(Split(path, "/"), 1, <<>>))]

\* Option<&str>::unwrap_or("")
UnwrapOrEmpty(o) == IF o.some THEN o.val ELSE <<>>

\* repo.strip_suffix('.').or_else(|| repo.strip_suffix(".git")), then the
\* stripped name if there is one
StripRepo(repo) ==
    LET stripped == OrElse(StripSuffix(repo, <<".">>), StripSuffix(repo, DotGit))
    IN  IF stripped.some THEN stripped.val ELSE repo

(***************************************************************************)
(* parse_github_owner_repo: Option<(owner, repo)>                          *)
(***************************************************************************)
parse_github_owner_repo(link) ==
    LET lower == ToLower(link)
        parsed == UrlParse(link)
    IN  IF ~Contains(lower, GithubCom) THEN None
        ELSE IF parsed.ok
        THEN IF UnwrapOrEmpty(parsed.domain) # GithubCom THEN None
             ELSE IF ~parsed.segs.some THEN None
             ELSE LET segs == parsed.segs.val
                  IN  IF Len(segs) = 0 THEN None
                      ELSE IF Len(segs) >= 2
                      THEN Some(<<segs[1], StripRepo(segs[2])>>)
                      ELSE Some(<<segs[1], segs[1]>>)
        ELSE LET rest == StripPrefix(lower, SshPrefix)
             IN  IF rest.some
                 THEN LET parts == Split(rest.val, "/")
                      IN  IF Len(parts) >= 2
                          THEN Some(<<parts[1], StripRepo(parts[2])>>)
                          ELSE IF Len(parts) = 1
                          THEN Some(<<parts[1], parts[1]>>)
                          ELSE None
                 ELSE None

\* github_stars as it would resolve without its SSH shorthand branch
github_stars_no_ssh(link) ==
    IF UrlParse(link).ok THEN parse_github_owner_repo(link) ELSE None

(***************************************************************************)
(* github_stars, its first part (to the `?` on try_owner_repo): the        *)
(* (owner, repo) the REST request is made for, or None when the function   *)
(* has returned an error before any request.                               *)
(***************************************************************************)
github_stars_owner_repo(link) ==
    LET lower == ToLower(link)
        parsed == UrlParse(link)
    IN  IF ~Contains(lower, GithubCom) THEN None               \* bail!("not github")
        ELSE IF parsed.ok
        THEN IF UnwrapOrEmpty(parsed.domain) # GithubCom THEN None  \* bail!
             ELSE IF ~parsed.segs.some THEN None                \* "no path"
             ELSE LET segs == parsed.segs.val
                  IN  IF Len(segs) = 0 THEN None                \* "no owner"
                      ELSE IF Len(segs) >= 2
                      THEN Some(<<segs[1], StripRepo(segs[2])>>)
                      ELSE Some(<<segs[1], segs[1]>>)
        ELSE LET rest == StripPrefix(lower, SshPrefix)
                 try_owner_repo ==
                     IF rest.some
                     THEN LET parts == Split(rest.val, "/")
                          IN  IF Len(parts) >= 2
                              THEN Some(<<parts[1], StripRepo(parts[2])>>)
                              ELSE IF Len(parts) = 1
                              THEN Some(<<parts[1], parts[1]>>)
                              ELSE None
                     ELSE None
             IN  try_owner_repo                  \* None: "unrecognized github url"

(***************************************************************************)
(* Numbers as text: u64::to_string, usize::to_string, format!("r{}", i)    *)
(***************************************************************************)
RECURSIVE DecStr(_)
DecStr(n) == IF n < 10 THEN <<Digits[n + 1]>>
             ELSE Append(DecStr(n \div 10), Digits[(n % 10) + 1])

\* owner.replace('"', "\\\"")
RECURSIVE EscapeQuotes(_)
EscapeQuotes(s) ==
    IF s = <<>> THEN <<>>
    ELSE (IF Head(s) = "\"" THEN <<"\\", "\"">> ELSE <<Head(s)>>)
         \o EscapeQuotes(Tail(s))

(***************************************************************************)
(* Bounds of the model and constants of the program                        *)
(***************************************************************************)
\* entries.chunks(50)
ChunkSize == 50
\* star counts GitHub holds are 0..MaxStars
MaxStars == 1
\* star counts of the lists the ranking is tried on are 0..MaxRankStars
MaxRankStars == 2
\* the short link lists of the lookup are of length 0..MaxLinks
MaxLinks == 2
\* the lists the ranking is tried on are of length 0..MaxRows
MaxRows == 3
\* the longest link list of the lookup
MaxBig == 120

Min(a, b) == IF a < b THEN a ELSE b

(***************************************************************************)
(* The URLs of the model                                                   *)
(***************************************************************************)
Https == <<"h","t","t","p","s",":","/","/">>
GitlabCom == <<"g","i","t","l","a","b",".","c","o","m">>

\* https://github.com/a/b
UrlAB == Https \o GithubCom \o <<"/","a","/","b">>
\* git@github.com:a/b.git : the same repository as UrlAB, another link
UrlABssh == SshPrefix \o <<"a","/","b">> \o DotGit
\* https://GitHub.com/C : owner only
UrlC == Https \o <<"G","i","t","H","u","b",".","c","o","m">> \o <<"/","C">>
\* https://gitlab.com/e/f : not on GitHub
UrlLab == Https \o GitlabCom \o <<"/","e","/","f">>

UrlPool == <<UrlAB, UrlABssh, UrlC, UrlLab>>
\* the links of UrlPool that resolve come first
ResolvablePool == SubSeq(UrlPool, 1, 3)

\* the repositories the links of the model name
AllPairs == { parse_github_owner_repo(UrlPool[i]).val :
                i \in { j \in 1..Len(UrlPool) :
                          parse_github_owner_repo(UrlPool[j]).some } }

(***************************************************************************)
(* State                                                                   *)
(***************************************************************************)
VARIABLES
    pc,                  \* where cmd_hub is
    exit,                \* "running", "ok" (Ok(())), "exit1" (process::exit(1)),
                         \* "err" (main returns Err: a non-zero exit)
    types,               \* cmd_hub's argument: Vec<String>
    yaml,                \* the text fetch_text returned
    map,                 \* HashMap<String, FlexEntry>
    items,               \* Vec<(type, url)>
    token,               \* env::var("GITHUB_TOKEN").ok()
    warn_graphql_failed,
    spinner_started,     \* start_spinner has been called
    spinner_stop,        \* the AtomicBool start_spinner returns
    spinner_thread,      \* where the thread start_spinner spawns is, and its i
    detailed,            \* Vec<(type, link, stars)>
    entries,             \* github_stars_batch: Vec<(link, (owner, repo))>
    out,                 \* github_stars_batch: HashMap<String, u64>
    chunks_done,         \* github_stars_batch: the chunks the loop has finished
    batch_ret,           \* what github_stars_batch returned, once it has
    world,               \* GitHub: the repositories and their star counts
    rest_mode,           \* the REST endpoint during the per-item loop
    net,                 \* the requests issued so far
    stdout,              \* what has been printed to stdout
    stderr,              \* what has been printed to stderr
    calls,               \* the lookups cmd_hub has called so far
    r_link,              \* the resolver's input (resolution on its own)
    r_bulk,              \* parse_github_owner_repo(r_link), once computed
    r_rest               \* github_stars' resolution of r_link, once computed

vars == <<pc, exit, types, yaml, map, items, token, warn_graphql_failed,
          spinner_started, spinner_stop, spinner_thread, detailed, entries, out, chunks_done,
          batch_ret, world, rest_mode, net, stdout, stderr, calls,
          r_link, r_bulk, r_rest>>

\* a result not computed yet, and a computed one
Pending == [done |-> FALSE]
Done(x) == [done |-> TRUE, val |-> x]

\* the thread of start_spinner: not spawned; spawned, at its first eprint!
NotSpawned == [at |-> "none", i |-> 0]
Spawned == [at |-> "first", i |-> 0]

\* start_spinner line 468
Frames == <<"-", "\\", "|", "/">>

MaxFrames == 3

\* a repository GitHub does not have, and one it has with n stars
Missing == [found |-> FALSE]
Found(n) == [found |-> TRUE, stars |-> n]

Worlds == [AllPairs -> {Missing} \cup { Found(n) : n \in 0..MaxStars }]

\* the REST endpoint: answering, unreachable (send fails), answering with a
\* body that is not JSON, or the HTTP client cannot be built
RestModes == {"up", "down", "garbled", "noclient"}

(***************************************************************************)
(* Result<T>, HashMap                                                      *)
(***************************************************************************)
Ok(x) == [ok |-> TRUE, val |-> x]
Err == [ok |-> FALSE]

EmptyMap == [k \in {} |-> 0]
\* HashMap::insert: a later insert under a key replaces the earlier value
MapInsert(m, k, v) == [x \in (DOMAIN m) \cup {k} |-> IF x = k THEN v ELSE m[x]]
\* *stars_map.get(&link).unwrap_or(&0)
MapGetOr0(m, k) == IF k \in DOMAIN m THEN m[k] ELSE 0

(***************************************************************************)
(* fetch_text and the head of cmd_hub                                      *)
(***************************************************************************)
\* FlexEntry
Single(u) == [kind |-> "Single", url |-> u]
Many(v) == [kind |-> "Many", urls |-> v]

\* a fetched text: YAML of a registry, or text serde_yaml rejects
ValidYaml(m) == [valid |-> TRUE, map |-> m]
InvalidYaml == [valid |-> FALSE]

HubUrl == <<"h","u","b",".","y","m","l">>

\* cmd_hub, lines 364-371, with fetch_text: one GET, no retry; the GET is
\* logged with whether it was answered with a success status and text (ok)
Fetch(outcome, text) ==
    /\ pc = "fetch"
    /\ net' = IF outcome = "noclient" THEN net
              ELSE Append(net, [kind |-> "GET", url |-> HubUrl, ok |-> outcome = "ok"])
    /\ IF outcome = "ok"
       THEN /\ yaml' = Some(text)
            /\ pc' = "parse"
            /\ UNCHANGED <<exit, stderr>>
       ELSE /\ stderr' = Append(stderr, [kind |-> "fetch_failed"])
            /\ exit' = "exit1"
            /\ pc' = "exited"
            /\ UNCHANGED yaml
    /\ UNCHANGED <<types, map, items, token, warn_graphql_failed, spinner_started,
                   spinner_stop, detailed, entries, out, chunks_done, batch_ret,
                   world, rest_mode, stdout, calls, r_link, r_bulk, r_rest,
                   spinner_thread>>

\* fetch_text fails when the client cannot be built, send fails, the status is
\* no success, or the body is no text
FetchOutcomes == {"ok", "noclient", "transport", "status", "body"}

\* the parse as it would be with the error dropped: an empty registry
ParseLenient ==
    /\ pc = "parse"
    /\ map' = IF yaml.val.valid THEN yaml.val.map ELSE EmptyMap
    /\ pc' = "flatten"
    /\ UNCHANGED <<exit, types, yaml, items, token, warn_graphql_failed,
                   spinner_started, spinner_stop, detailed, entries, out,
                   chunks_done, batch_ret, world, rest_mode, net, stdout, stderr,
                   calls, r_link, r_bulk, r_rest,
                   spinner_thread>>

\* cmd_hub, lines 373-374: serde_yaml::from_str(&yaml)?
Parse ==
    /\ pc = "parse"
    /\ IF yaml.val.valid
       THEN /\ map' = yaml.val.map
            /\ pc' = "flatten"
            /\ UNCHANGED exit
       ELSE /\ exit' = "err"
            /\ pc' = "exited"
            /\ UNCHANGED map
    /\ UNCHANGED <<types, yaml, items, token, warn_graphql_failed, spinner_started,
                   spinner_stop, detailed, entries, out, chunks_done, batch_ret,
                   world, rest_mode, net, stdout, calls, stderr, r_link, r_bulk, r_rest,
                   spinner_thread>>

(***************************************************************************)
(* Flattening, cmd_hub lines 376-392                                       *)
(***************************************************************************)
\* types.iter().map(|s| s.to_lowercase()).collect()
Filters(ts) == [i \in 1..Len(ts) |-> ToLower(ts[i])]

\* the test without ty.to_lowercase()
PassesCaseSensitive(filters, ty) == Len(filters) = 0 \/ InSeq(ty, filters)

\* !filters.is_empty() && !filters.contains(&ty.to_lowercase()): skip
Passes(filters, ty) == Len(filters) = 0 \/ InSeq(ToLower(ty), filters)

\* the items one (ty, entry) of the map pushes
EntryItems(ty, entry) ==
    IF entry.kind = "Single" THEN << <<ty, entry.url>> >>
    ELSE [i \in 1..Len(entry.urls) |-> <<ty, entry.urls[i]>>]

RECURSIVE FlattenFrom(_, _, _, _)
\* order: the keys of m in the order map.into_iter() yields them
FlattenFrom(m, order, filters, i) ==
    IF i > Len(order) THEN <<>>
    ELSE (IF Passes(filters, order[i]) THEN EntryItems(order[i], m[order[i]])
          ELSE <<>>)
         \o FlattenFrom(m, order, filters, i + 1)

FlattenMap(m, order, ts) == FlattenFrom(m, order, Filters(ts), 1)

\* the orders a HashMap with these keys may be iterated in
Orders(keys) ==
    { o \in [1..Cardinality(keys) -> keys] :
        \A i, j \in 1..Cardinality(keys) : i # j => o[i] # o[j] }

Flatten ==
    /\ pc = "flatten"
    /\ \E order \in Orders(DOMAIN map) : items' = FlattenMap(map, order, types)
    /\ pc' = "lookup"
    /\ UNCHANGED <<exit, types, yaml, map, token, warn_graphql_failed,
                   spinner_started, spinner_stop, detailed, entries, out,
                   chunks_done, batch_ret, world, rest_mode, net, stdout, calls, stderr,
                   r_link, r_bulk, r_rest,
                   spinner_thread>>

(***************************************************************************)
(* GitHub                                                                  *)
(***************************************************************************)
\* what GitHub answers for a repository: null when it has none of that name
\* (None), the object holding its stargazerCount otherwise (Some)
Answer(w, owner, name) ==
    IF <<owner, name>> \in DOMAIN w /\ w[<<owner, name>>].found
    THEN Some(w[<<owner, name>>].stars)
    ELSE None

\* the orders the keys of the response's data object may come in
KeyOrders == {"query", "reverse", "rotate"}

Permute(s, order) ==
    IF order = "reverse" THEN [i \in 1..Len(s) |-> s[Len(s) + 1 - i]]
    ELSE IF order = "rotate" /\ Len(s) > 0 THEN Tail(s) \o <<Head(s)>>
    ELSE s

\* the data object of the answer to query q: one <<alias, value>> per
\* aliased repository of q
GraphqlData(w, q, order) ==
    Permute([i \in 1..Len(q) |-> <<q[i].alias, Answer(w, q[i].owner, q[i].name)>>],
            order)

\* serde_json: data.get(&alias)
ObjGet(obj, key) ==
    IF \E i \in 1..Len(obj) : obj[i][1] = key
    THEN Some(obj[CHOOSE i \in 1..Len(obj) : obj[i][1] = key][2])
    ELSE None

(***************************************************************************)
(* github_stars_batch                                                      *)
(***************************************************************************)
\* lines 600-605: the links that resolve, in their order, each with its
\* (owner, repo)
ResolveAll(links) ==
    LET Resolves(l) == parse_github_owner_repo(l).some
        kept == SelectSeq(links, Resolves)
    IN  [i \in 1..Len(kept) |-> <<kept[i], parse_github_owner_repo(kept[i]).val>>]

\* the chunk as it would be with its last entry left out
ChunkOfShort(es, k) ==
    SubSeq(es, k * ChunkSize + 1, Min(Len(es), (k + 1) * ChunkSize - 1))

\* entries.chunks(50): the chunk with index k (from 0), and how many there are
ChunkOf(es, k) == SubSeq(es, k * ChunkSize + 1, Min(Len(es), (k + 1) * ChunkSize))
NumChunks(es) == (Len(es) + ChunkSize - 1) \div ChunkSize

\* format!("r{}", i)
Alias(i) == <<"r">> \o DecStr(i)

\* lines 618-628: the query of a chunk, one aliased repository per entry
BuildQuery(chunk) ==
    [i \in 1..Len(chunk) |->
        [alias |-> Alias(i - 1),
         owner |-> EscapeQuotes(chunk[i][2][1]),
         name  |-> EscapeQuotes(chunk[i][2][2])]]

\* the count as it would be read by the place in the object, not by the alias
CountAtPlace(data, i) ==
    IF i + 1 <= Len(data) /\ data[i + 1][2].some THEN data[i + 1][2].val ELSE 0

\* lines 643-648: the count read for the entry at index i (from 0)
CountAt(data, i) ==
    LET obj == ObjGet(data, Alias(i))
    IN  IF obj.some /\ obj.val.some THEN obj.val.val ELSE 0

\* lines 642-650: out.insert(link, count) for the entries of the chunk in
\* their order; of two entries with one link the later insert stays
InsertCounts(m, chunk, data) ==
    LET keys == { chunk[i][1] : i \in 1..Len(chunk) }
        LastAt(k) == CHOOSE i \in 1..Len(chunk) :
                        chunk[i][1] = k /\ \A j \in (i + 1)..Len(chunk) : chunk[j][1] # k
    IN  [x \in (DOMAIN m) \cup keys |->
            IF x \in keys THEN CountAt(data, LastAt(x) - 1) ELSE m[x]]

\* a chunk's request: send fails, the status is no success, the body is no
\* JSON, the JSON has no data object, or it has one; the request is logged
\* with whether it was answered with a success status and JSON (ok)
ChunkOutcomes == {"transport", "status", "undecodable", "nodata", "data"}

Links(its) == [i \in 1..Len(its) |-> its[i][2]]

\* the start as it would be with the per-item path taken whatever the token
LookupStartRestOnly ==
    /\ pc = "lookup"
    /\ warn_graphql_failed' = FALSE
    /\ spinner_started' = TRUE
    /\ spinner_thread' = Spawned
    /\ detailed' = <<>>
    /\ pc' = IF Len(items) = 0 THEN "stop" ELSE "rest"
    /\ \E m \in RestModes : rest_mode' = m
    /\ UNCHANGED <<exit, types, yaml, map, items, token, spinner_stop, entries, out,
                   chunks_done, batch_ret, world, net, stdout, stderr, calls,
                   r_link, r_bulk, r_rest>>

\* cmd_hub lines 395-402 and 418: the token, the spinner, the path
LookupStart ==
    /\ pc = "lookup"
    /\ warn_graphql_failed' = FALSE
    /\ spinner_started' = TRUE
    /\ spinner_thread' = Spawned
    /\ detailed' = <<>>
    /\ IF token.some
       THEN pc' = "batch" /\ UNCHANGED rest_mode
       ELSE /\ pc' = IF Len(items) = 0 THEN "stop" ELSE "rest"
            /\ \E m \in RestModes : rest_mode' = m
    /\ UNCHANGED <<exit, types, yaml, map, items, token, spinner_stop, entries, out,
                   chunks_done, batch_ret, world, net, stdout, calls, stderr,
                   r_link, r_bulk, r_rest>>

\* github_stars_batch lines 600-615
BatchStart(client_ok) ==
    /\ pc = "batch"
    /\ calls' = Append(calls, <<"github_stars_batch">>)
    /\ entries' = ResolveAll(Links(items))
    /\ IF Len(entries') = 0
       THEN /\ batch_ret' = Done(Ok(EmptyMap))
            /\ pc' = "batch_ret"
            /\ UNCHANGED <<out, chunks_done>>
       ELSE IF client_ok
       THEN /\ out' = EmptyMap
            /\ chunks_done' = 0
            /\ pc' = "chunk"
            /\ UNCHANGED batch_ret
       ELSE /\ batch_ret' = Done(Err)
            /\ pc' = "batch_ret"
            /\ UNCHANGED <<out, chunks_done>>
    /\ UNCHANGED <<exit, types, yaml, map, items, token, warn_graphql_failed,
                   spinner_started, spinner_stop, detailed, world, rest_mode, net,
                   stdout, stderr, r_link, r_bulk, r_rest,
                   spinner_thread>>

\* the turn as it would be with a failed request skipped instead of returned
BatchChunkContinue(outcome, order) ==
    /\ pc = "chunk"
    /\ LET chunk == ChunkOf(entries, chunks_done)
           q == BuildQuery(chunk)
       IN  /\ net' = Append(net, [kind |-> "graphql", query |-> q, auth |-> token,
                               ok |-> outcome \in {"nodata", "data"}])
           /\ out' = IF outcome = "data"
                     THEN InsertCounts(out, chunk, GraphqlData(world, q, order))
                     ELSE out
           /\ chunks_done' = chunks_done + 1
           /\ IF chunks_done' = NumChunks(entries)
              THEN batch_ret' = Done(Ok(out')) /\ pc' = "batch_ret"
              ELSE UNCHANGED <<batch_ret, pc>>
    /\ UNCHANGED <<exit, types, yaml, map, items, token, warn_graphql_failed,
                   spinner_started, spinner_stop, detailed, entries, world,
                   rest_mode, stdout, stderr, calls, r_link, r_bulk, r_rest,
                   spinner_thread>>

\* github_stars_batch lines 617-654: one turn of the loop over the chunks,
\* and the return after the last
BatchChunk(outcome, order) ==
    /\ pc = "chunk"
    /\ LET chunk == ChunkOf(entries, chunks_done)
           q == BuildQuery(chunk)
       IN  /\ net' = Append(net, [kind |-> "graphql", query |-> q, auth |-> token,
                               ok |-> outcome \in {"nodata", "data"}])
           /\ IF outcome \in {"transport", "status", "undecodable"}
              THEN /\ batch_ret' = Done(Err)
                   /\ pc' = "batch_ret"
                   /\ UNCHANGED <<out, chunks_done>>
              ELSE /\ out' = IF outcome = "data"
                             THEN InsertCounts(out, chunk, GraphqlData(world, q, order))
                             ELSE out
                   /\ chunks_done' = chunks_done + 1
                   /\ IF chunks_done' = NumChunks(entries)
                      THEN batch_ret' = Done(Ok(out')) /\ pc' = "batch_ret"
                      ELSE UNCHANGED <<batch_ret, pc>>
    /\ UNCHANGED <<exit, types, yaml, map, items, token, warn_graphql_failed,
                   spinner_started, spinner_stop, detailed, entries, world,
                   rest_mode, stdout, calls, stderr, r_link, r_bulk, r_rest,
                   spinner_thread>>

\* cmd_hub lines 403-411: the arms of the match on github_stars_batch's result
BatchArm ==
    /\ pc = "batch_ret"
    /\ IF batch_ret.val.ok
       THEN /\ detailed' = [i \in 1..Len(items) |->
                              <<items[i][1], items[i][2],
                                MapGetOr0(batch_ret.val.val, items[i][2])>>]
            /\ pc' = "stop"
            /\ UNCHANGED <<warn_graphql_failed, rest_mode>>
       ELSE /\ warn_graphql_failed' = TRUE
            /\ pc' = IF Len(items) = 0 THEN "stop" ELSE "rest"
            /\ \E m \in RestModes : rest_mode' = m
            /\ UNCHANGED detailed
    /\ UNCHANGED <<exit, types, yaml, map, items, token, spinner_started,
                   spinner_stop, entries, out, chunks_done, batch_ret, world, net,
                   stdout, calls, stderr, r_link, r_bulk, r_rest,
                   spinner_thread>>

(***************************************************************************)
(* github_stars                                                            *)
(***************************************************************************)
ApiRepos == Https \o <<"a","p","i",".">> \o GithubCom \o <<"/","r","e","p","o","s","/">>

\* format!("https://api.github.com/repos/{}/{}", owner, repo)
ApiUrl(owner, repo) == ApiRepos \o owner \o <<"/">> \o repo

\* github_stars(link): [result |-> Result<u64>, requests |-> the GETs it sent]
github_stars(link, w, mode) ==
    LET ref == github_stars_owner_repo(link)
    IN  IF ~ref.some THEN [result |-> Err, requests |-> <<>>]
        ELSE IF mode = "noclient" THEN [result |-> Err, requests |-> <<>>]
        ELSE
          LET api == ApiUrl(ref.val[1], ref.val[2])
              reqs == << [kind |-> "rest", url |-> api] >>
              body == Answer(w, ref.val[1], ref.val[2])
          IN  IF mode = "down" THEN [result |-> Err, requests |-> reqs]
              ELSE IF ~body.some THEN [result |-> Err, requests |-> reqs]   \* bad status
              ELSE IF mode = "garbled" THEN [result |-> Err, requests |-> reqs]
              ELSE [result |-> Ok(body.val), requests |-> reqs]

\* Result<u64>::unwrap_or(0)
UnwrapOr0(r) == IF r.ok THEN r.val ELSE 0

\* the turn as it would be with `?` in the place of unwrap_or(0)
RestCallPropagate ==
    /\ pc = "rest"
    /\ LET i == Len(detailed) + 1
           got == github_stars(items[i][2], world, rest_mode)
       IN  /\ calls' = Append(calls, <<"github_stars", i>>)
           /\ net' = net \o got.requests
           /\ IF got.result.ok
              THEN /\ detailed' = Append(detailed,
                                         <<items[i][1], items[i][2], got.result.val>>)
                   /\ pc' = IF i = Len(items) THEN "stop" ELSE "rest"
                   /\ UNCHANGED exit
              ELSE /\ exit' = "err"
                   /\ pc' = "exited"
                   /\ UNCHANGED detailed
    /\ UNCHANGED <<types, yaml, map, items, token, warn_graphql_failed,
                   spinner_started, spinner_stop, entries, out, chunks_done,
                   batch_ret, world, rest_mode, stdout, stderr,
                   r_link, r_bulk, r_rest,
                   spinner_thread>>

\* cmd_hub lines 412-415 and 419-422: one turn of the per-item loop
RestCall ==
    /\ pc = "rest"
    /\ LET i == Len(detailed) + 1
           got == github_stars(items[i][2], world, rest_mode)
       IN  /\ calls' = Append(calls, <<"github_stars", i>>)
           /\ net' = net \o got.requests
           /\ detailed' = Append(detailed,
                                 <<items[i][1], items[i][2], UnwrapOr0(got.result)>>)
           /\ pc' = IF i = Len(items) THEN "stop" ELSE "rest"
    /\ UNCHANGED <<exit, types, yaml, map, items, token, warn_graphql_failed,
                   spinner_started, spinner_stop, entries, out, chunks_done,
                   batch_ret, world, rest_mode, stdout, stderr,
                   r_link, r_bulk, r_rest,
                   spinner_thread>>

\* cmd_hub line 425: spinner_stop.store(true, Ordering::SeqCst)
SpinnerStop ==
    /\ pc = "stop"
    /\ spinner_stop' = TRUE
    /\ pc' = "newline"
    /\ UNCHANGED <<exit, types, yaml, map, items, token, warn_graphql_failed,
                   spinner_started, spinner_thread, detailed, entries, out,
                   chunks_done, batch_ret, world, rest_mode, net, stdout, stderr,
                   calls, r_link, r_bulk, r_rest>>

\* cmd_hub line 427: eprintln!("")
StatusNewline ==
    /\ pc = "newline"
    /\ stderr' = Append(stderr, [kind |-> "newline"])
    /\ pc' = "sort"
    /\ UNCHANGED <<exit, types, yaml, map, items, token, warn_graphql_failed,
                   spinner_started, spinner_stop, spinner_thread, detailed,
                   entries, out, chunks_done, batch_ret, world, rest_mode, net,
                   stdout, calls, r_link, r_bulk, r_rest>>

(***************************************************************************)
(* The thread of start_spinner, lines 467-479. It runs while the process   *)
(* does: the process ends, and the thread with it, when main returns or    *)
(* calls process::exit. A frame is written by one eprint!, which holds the *)
(* lock of stderr. The loop takes a next turn while fewer than MaxFrames   *)
(* frames have been written.                                               *)
(***************************************************************************)
IsFrame(e) == e.kind = "frame"

FramesWritten == Len(SelectSeq(stderr, IsFrame))

ThreadFrame ==
    /\ exit = "running"
    /\ UNCHANGED <<pc, exit, types, yaml, map, items, token, warn_graphql_failed,
                   spinner_started, spinner_stop, detailed, entries, out,
                   chunks_done, batch_ret, world, rest_mode, net, stdout, calls,
                   r_link, r_bulk, r_rest>>

\* lines 471-472: the first frame, before the flag is read
SpinnerFirst ==
    /\ spinner_thread.at = "first"
    /\ stderr' = Append(stderr, [kind |-> "frame", frame |-> Frames[spinner_thread.i + 1]])
    /\ spinner_thread' = [spinner_thread EXCEPT !.at = "test"]
    /\ ThreadFrame

\* lines 473-474: the flag is read; set, the loop and the thread end
SpinnerTest ==
    /\ spinner_thread.at = "test"
    /\ IF spinner_stop
       THEN spinner_thread' = [spinner_thread EXCEPT !.at = "exited"]
       ELSE /\ FramesWritten < MaxFrames
            /\ spinner_thread' = [at |-> "write",
                                  i |-> (spinner_thread.i + 1) % Len(Frames)]
    /\ UNCHANGED stderr
    /\ ThreadFrame

\* lines 475-476
SpinnerWrite ==
    /\ spinner_thread.at = "write"
    /\ stderr' = Append(stderr, [kind |-> "frame", frame |-> Frames[spinner_thread.i + 1]])
    /\ spinner_thread' = [spinner_thread EXCEPT !.at = "sleep"]
    /\ ThreadFrame

\* line 477
SpinnerSleep ==
    /\ spinner_thread.at = "sleep"
    /\ spinner_thread' = [spinner_thread EXCEPT !.at = "test"]
    /\ UNCHANGED stderr
    /\ ThreadFrame

SpinnerThread == SpinnerFirst \/ SpinnerTest \/ SpinnerWrite \/ SpinnerSleep

(***************************************************************************)
(* Ranking and the table, cmd_hub lines 429-460                            *)
(***************************************************************************)
\* the place x would take before the elements with as many stars: an
\* unstable sort
InsertPlaceUnstable(s, x) ==
    IF \E j \in 1..Len(s) : s[j][3] <= x[3]
    THEN CHOOSE j \in 1..Len(s) :
            s[j][3] <= x[3] /\ \A k \in 1..(j - 1) : s[k][3] > x[3]
    ELSE Len(s) + 1

\* the place x takes in s, sorted by stars descending, after every element
\* that does not have fewer stars: slice::sort_by is stable
InsertPlace(s, x) ==
    IF \E j \in 1..Len(s) : s[j][3] < x[3]
    THEN CHOOSE j \in 1..Len(s) :
            s[j][3] < x[3] /\ \A k \in 1..(j - 1) : s[k][3] >= x[3]
    ELSE Len(s) + 1

InsertSorted(s, x) ==
    LET j == InsertPlace(s, x)
    IN  SubSeq(s, 1, j - 1) \o <<x>> \o SubSeq(s, j, Len(s))

RECURSIVE SortFrom(_, _, _)
SortFrom(d, i, acc) ==
    IF i > Len(d) THEN acc ELSE SortFrom(d, i + 1, InsertSorted(acc, d[i]))

\* detailed.sort_by(|a, b| b.2.cmp(&a.2))
SortByStarsDesc(d) == SortFrom(d, 1, <<>>)

RECURSIVE TrimEnd(_, _)
\* str::trim_end_matches
TrimEnd(s, p) ==
    IF Len(p) > 0 /\ EndsWith(s, p) THEN TrimEnd(SubSeq(s, 1, Len(s) - Len(p)), p)
    ELSE s

\* derive_repo_name
derive_repo_name(repo_url) ==
    LET trimmed == TrimEnd(TrimEnd(repo_url, <<"/">>), DotGit)
        parts == Split(trimmed, "/")
    IN  parts[Len(parts)]

\* the rank of the row at index idx (from 0)
Rank(idx) == DecStr(idx + 1)

\* lines 436-442: the rows of the table; store: the names under DOTHUB_DIR
TableRows(d, store) ==
    [i \in 1..Len(d) |->
        [rank |-> Rank(i - 1),
         stars |-> DecStr(d[i][3]),
         installed |-> IF derive_repo_name(d[i][2]) \in store THEN "y" ELSE "n",
         link |-> d[i][2]]]

\* the names the store may hold
StoreNames == { <<"b">> }

\* lines 429-430
Sort ==
    /\ pc = "sort"
    /\ detailed' = SortByStarsDesc(detailed)
    /\ pc' = "table"
    /\ UNCHANGED <<exit, types, yaml, map, items, token, warn_graphql_failed,
                   spinner_started, spinner_stop, entries, out, chunks_done,
                   batch_ret, world, rest_mode, net, stdout, calls, stderr,
                   r_link, r_bulk, r_rest,
                   spinner_thread>>

\* lines 432-460
PrintTable(store) ==
    /\ pc = "table"
    /\ stdout' = stdout
                 \o << [kind |-> "table", rows |-> TableRows(detailed, store)] >>
                 \o (IF ~token.some THEN << [kind |-> "token_hint"] >> ELSE <<>>)
                 \o (IF warn_graphql_failed THEN << [kind |-> "graphql_warning"] >>
                     ELSE <<>>)
                 \o << [kind |-> "help"] >>
    /\ exit' = "ok"
    /\ pc' = "done"
    /\ UNCHANGED <<types, yaml, map, items, token, warn_graphql_failed,
                   spinner_started, spinner_stop, detailed, entries, out,
                   chunks_done, batch_ret, world, rest_mode, net, stderr, calls,
                   r_link, r_bulk, r_rest,
                   spinner_thread>>

(***************************************************************************)
(* The resolutions on their own                                            *)
(***************************************************************************)
ResolveBulk ==
    /\ pc = "resolve"
    /\ ~r_bulk.done
    /\ r_bulk' = Done(parse_github_owner_repo(r_link))
    /\ UNCHANGED <<pc, exit, types, yaml, map, items, token, warn_graphql_failed,
                   spinner_started, spinner_stop, detailed, entries, out,
                   chunks_done, batch_ret, world, rest_mode, net, stdout, calls, stderr,
                   r_link, r_rest,
                   spinner_thread>>

ResolveRest ==
    /\ pc = "resolve"
    /\ ~r_rest.done
    /\ r_rest' = Done(github_stars_owner_repo(r_link))
    /\ UNCHANGED <<pc, exit, types, yaml, map, items, token, warn_graphql_failed,
                   spinner_started, spinner_stop, detailed, entries, out,
                   chunks_done, batch_ret, world, rest_mode, net, stdout, calls, stderr,
                   r_link, r_bulk,
                   spinner_thread>>

(***************************************************************************)
(* Inputs                                                                  *)
(***************************************************************************)
SeqsUpTo(S, n) == UNION { [1..k -> S] : k \in 0..n }

FlexEntries(urls, n) ==
    { Single(u) : u \in urls } \cup { Many(v) : v \in SeqsUpTo(urls, n) }

Registries(keys, vals) == UNION { [K -> vals] : K \in SUBSET keys }

KeyNv == <<"n", "v">>
KeyNV == <<"N", "V">>
KeyT == <<"t">>
KeyZ == <<"z">>

Tokens == { None, Some(<<"t", "o", "k">>) }

\* the filters of the command line
TypeLists == { <<>>, <<KeyNV>>, <<KeyT>>, <<KeyNv, KeyT>>, <<KeyZ>> }

\* the longest list of a registry value
MaxMany == 2

NoWorld == [p \in {} |-> Missing]

\* the state before cmd_hub has done anything, but for the named variables
Blank ==
    /\ exit = "running"
    /\ yaml = None
    /\ warn_graphql_failed = FALSE
    /\ spinner_started = FALSE
    /\ spinner_stop = FALSE
    /\ spinner_thread = NotSpawned
    /\ entries = <<>>
    /\ out = EmptyMap
    /\ chunks_done = 0
    /\ batch_ret = Pending
    /\ rest_mode = "up"
    /\ net = <<>>
    /\ stdout = <<>>
    /\ stderr = <<>>
    /\ calls = <<>>

NoProbe == r_link = <<>> /\ r_bulk = Pending /\ r_rest = Pending

(***************************************************************************)
(* cmd_hub from its start, on small registries                             *)
(***************************************************************************)
SmallRegistries ==
    Registries({KeyNv, KeyT},
               { Single(UrlAB), Many(<<UrlC, UrlLab>>), Many(<<>>) })

Texts == { ValidYaml(m) : m \in SmallRegistries } \cup { InvalidYaml }

Init ==
    /\ pc = "fetch"
    /\ types \in { <<>>, <<KeyNV>> }
    /\ token \in Tokens
    /\ world \in Worlds
    /\ map = EmptyMap
    /\ items = <<>>
    /\ detailed = <<>>
    /\ Blank
    /\ NoProbe

NextFetch == \E o \in FetchOutcomes, t \in Texts : Fetch(o, t)

NextLookup ==
    \/ LookupStart
    \/ \E c \in BOOLEAN : BatchStart(c)
    \/ \E o \in ChunkOutcomes, ord \in KeyOrders : BatchChunk(o, ord)
    \/ BatchArm
    \/ RestCall
    \/ SpinnerStop
    \/ StatusNewline

NextRank ==
    \/ Sort
    \/ \E store \in SUBSET StoreNames : PrintTable(store)

Next ==
    \/ NextFetch
    \/ Parse
    \/ Flatten
    \/ NextLookup
    \/ NextRank

Spec == Init /\ [][Next]_vars

(***************************************************************************)
(* The flattening on its own: cmd_hub from line 376, on the registries     *)
(* over three keys, two of them equal but for their case                   *)
(***************************************************************************)
FlatKeys == { KeyNv, KeyNV, KeyT }
FlatRegistries == Registries(FlatKeys, FlexEntries({UrlAB, UrlLab}, MaxMany))

InitFlatten ==
    /\ pc = "flatten"
    /\ types \in TypeLists
    /\ map \in FlatRegistries
    /\ token = None
    /\ world = NoWorld
    /\ items = <<>>
    /\ detailed = <<>>
    /\ Blank
    /\ NoProbe

SpecFlatten == InitFlatten /\ [][Flatten]_vars

(***************************************************************************)
(* The star lookup on its own: cmd_hub from line 395, on the link lists of *)
(* length 0..MaxLinks and on long lists, which take several chunks         *)
(***************************************************************************)
ItemsOf(links) == [i \in 1..Len(links) |-> <<KeyNv, links[i]>>]

ShortLinks == SeqsUpTo({ UrlPool[i] : i \in 1..Len(UrlPool) }, MaxLinks)

\* n links, the links of pool over and over
Cycle(pool, n) == [i \in 1..n |-> pool[((i - 1) % Len(pool)) + 1]]

LongLens == { ChunkSize, ChunkSize + 1, 2 * ChunkSize, MaxBig }
LongLinks == { Cycle(ResolvablePool, n) : n \in LongLens }
                \cup { Cycle(UrlPool, n) : n \in LongLens }

\* every repository found: no star for the ones named as their owner,
\* MaxStars stars for the others
LongWorld == [p \in AllPairs |-> Found(IF p[1] = p[2] THEN 0 ELSE MaxStars)]

InitLookup ==
    /\ pc = "lookup"
    /\ types = <<>>
    /\ map = EmptyMap
    /\ \/ /\ items \in { ItemsOf(l) : l \in ShortLinks }
          /\ token \in Tokens
          /\ world \in Worlds
       \/ /\ items \in { ItemsOf(l) : l \in LongLinks }
          /\ token = Some(<<"t", "o", "k">>)
          /\ world = LongWorld
    /\ detailed = <<>>
    /\ Blank
    /\ NoProbe

SpecLookup == InitLookup /\ [][NextLookup]_vars

(***************************************************************************)
(* The ranking on its own: cmd_hub from line 429                           *)
(***************************************************************************)
RankRows == { <<KeyNv, l, n>> : l \in {UrlAB, UrlC, UrlLab}, n \in 0..MaxRankStars }

InitRank ==
    /\ pc = "sort"
    /\ types = <<>>
    /\ map = EmptyMap
    /\ items = <<>>
    /\ detailed \in SeqsUpTo(RankRows, MaxRows)
    /\ token \in Tokens
    /\ world = NoWorld
    /\ exit = "running"
    /\ yaml = None
    /\ warn_graphql_failed \in IF token.some THEN BOOLEAN ELSE {FALSE}
    /\ spinner_started = TRUE
    /\ spinner_stop = TRUE
    /\ spinner_thread = Spawned
    /\ entries = <<>>
    /\ out = EmptyMap
    /\ chunks_done = 0
    /\ batch_ret = Pending
    /\ rest_mode = "up"
    /\ net = <<>>
    /\ stdout = <<>>
    /\ stderr = << [kind |-> "newline"] >>
    /\ calls = <<>>
    /\ NoProbe

SpecRank == InitRank /\ [][NextRank]_vars

(***************************************************************************)
(* The star lookup and what follows it, with the thread of start_spinner   *)
(* running beside cmd_hub: from line 395, on the short link lists. The      *)
(* thread is scheduled again and again while the process runs; nothing is  *)
(* assumed of the pace of cmd_hub.                                         *)
(***************************************************************************)
InitSpinner ==
    /\ pc = "lookup"
    /\ types = <<>>
    /\ map = EmptyMap
    /\ items \in { ItemsOf(l) : l \in ShortLinks }
    /\ token \in Tokens
    /\ world = LongWorld
    /\ detailed = <<>>
    /\ Blank
    /\ NoProbe

MainFlow == NextLookup \/ NextRank

NextSpinner == MainFlow \/ SpinnerThread

SpecSpinner ==
    /\ InitSpinner
    /\ [][NextSpinner]_vars
    /\ WF_vars(SpinnerThread)

(***************************************************************************)
(* The two resolutions on their own, on the URLs made of a head and of up  *)
(* to MaxTail pieces after it                                              *)
(***************************************************************************)
MaxTail == 4

UrlHeads ==
    { Https \o GithubCom,
      Https \o <<"G","i","t","H","u","b",".","c","o","m">>,
      <<"h","t","t","p",":","/","/">> \o GithubCom,
      Https \o GitlabCom,
      Https \o <<"n","o","t">> \o GithubCom,
      Https \o GitlabCom \o <<"/">> \o GithubCom,
      SshPrefix,
      <<"g","i","t","@","G","i","t","H","u","b",".","c","o","m",":">>,
      <<"g","i","t","@">> \o GitlabCom \o <<":">>,
      GithubCom,
      GithubCom \o <<":">> }

TailPieces == { <<"a">>, <<"B">>, <<"/">>, <<".">>, DotGit }

RECURSIVE TailsUpTo(_)
TailsUpTo(n) ==
    IF n = 0 THEN { <<>> }
    ELSE LET shorter == TailsUpTo(n - 1)
         IN  shorter \cup { t \o piece : t \in shorter, piece \in TailPieces }

ProbeUrls == { h \o t : h \in UrlHeads, t \in TailsUpTo(MaxTail) }

InitResolve ==
    /\ pc = "resolve"
    /\ r_link \in ProbeUrls
    /\ r_bulk = Pending
    /\ r_rest = Pending
    /\ types = <<>>
    /\ map = EmptyMap
    /\ items = <<>>
    /\ detailed = <<>>
    /\ token = None
    /\ world = NoWorld
    /\ Blank

NextResolve == ResolveBulk \/ ResolveRest

SpecResolve == InitResolve /\ [][NextResolve]_vars

(***************************************************************************)
(* Properties                                                              *)
(***************************************************************************)

\* C10: parse_github_owner_repo (the bulk path's resolution) and the
\* resolution at the start of github_stars (the REST path's) agree on every
\* URL: both find it unresolvable, or both yield the same (owner, repo).
C10_ResolutionsAgree ==
    (r_bulk.done /\ r_rest.done) => r_bulk.val = r_rest.val

\* both have resolved the SSH shorthand git@github.com:a/B.git, which is split
\* in lower case and loses its .git suffix, to (a, b)
C10_Witness ==
    /\ r_bulk.done /\ r_rest.done
    /\ r_link = SshPrefix \o <<"a", "/", "B">> \o DotGit
    /\ r_rest.val = Some(<< <<"a">>, <<"b">> >>)

\* C9: a key of the registry passes iff there is no filter or its type, in
\* lower case, is one of the filters, in lower case; the flattened list holds
\* for each passing key its URLs in their order (one for a single URL, k for
\* a list of k), each tagged with the key, and nothing for the other keys.
KeyPasses(ty) ==
    types = <<>> \/ \E j \in 1..Len(types) : ToLower(types[j]) = ToLower(ty)

UrlsOf(entry) == IF entry.kind = "Single" THEN <<entry.url>> ELSE entry.urls

\* the URLs of the items tagged ty, in their order
ItemsTagged(ty) ==
    LET IsTy(it) == it[1] = ty
    IN  Links(SelectSeq(items, IsTy))

C9_FlattenFilter ==
    (pc = "lookup") =>
        /\ \A i \in 1..Len(items) : items[i][1] \in DOMAIN map
        /\ \A ty \in DOMAIN map :
              ItemsTagged(ty) = IF KeyPasses(ty) THEN UrlsOf(map[ty]) ELSE <<>>
        /\ \A ty \in DOMAIN map :
              Len(ItemsTagged(ty)) =
                 IF ~KeyPasses(ty) THEN 0
                 ELSE IF map[ty].kind = "Single" THEN 1
                 ELSE Len(map[ty].urls)

\* the filter NV keeps the two URLs of key nv and drops the URL of key t
C9_Witness ==
    /\ pc = "lookup"
    /\ types = <<KeyNV>>
    /\ DOMAIN map = {KeyNv, KeyT}
    /\ map[KeyNv] = Many(<<UrlAB, UrlLab>>)
    /\ map[KeyT] = Single(UrlAB)
    /\ items = << <<KeyNv, UrlAB>>, <<KeyNv, UrlLab>> >>

\* C8: the sort leaves the entries, each with its star count, ordered by
\* star count descending, entries with equal counts in the order they had
\* before; the table has one row per entry in that order, and the rank of
\* a row is its position, from 1.
\* the place the entry at i of d has after a stable sort by stars descending
StablePlace(d, i) ==
    1 + Cardinality({ j \in 1..Len(d) : d[j][3] > d[i][3] })
      + Cardinality({ j \in 1..(i - 1) : d[j][3] = d[i][3] })

C8_SortStep ==
    (pc = "sort" /\ pc' = "table") =>
        /\ Len(detailed') = Len(detailed)
        /\ \A i \in 1..Len(detailed) : detailed'[StablePlace(detailed, i)] = detailed[i]
        /\ \A i, j \in 1..Len(detailed') :
              i < j => detailed'[i][3] >= detailed'[j][3]

C8_TableStep ==
    (pc = "table" /\ pc' = "done") =>
        LET rows == stdout'[Len(stdout) + 1].rows
        IN  /\ Len(rows) = Len(detailed)
            /\ \A i \in 1..Len(rows) :
                  /\ rows[i].link = detailed[i][2]
                  /\ rows[i].stars = DecStr(detailed[i][3])
                  /\ rows[i].rank = DecStr(i)

C8_Ranking == [][C8_SortStep /\ C8_TableStep]_vars

\* a table of three rows, two of them with as many stars and distinct links
C8_Witness ==
    /\ pc = "done"
    /\ LET rows == stdout[1].rows
       IN  /\ Len(rows) = 3
           /\ rows[1].stars = rows[2].stars
           /\ rows[1].link # rows[2].link
           /\ rows[3].stars = <<"0">>
           /\ rows[1].stars = DecStr(MaxRankStars)
           /\ rows[3].rank = <<"3">>

(***************************************************************************)
(* The requests and calls of a state                                       *)
(***************************************************************************)
IsGet(r) == r.kind = "GET"
IsGraphql(r) == r.kind = "graphql"
IsRestReq(r) == r.kind = "rest"
Gets == SelectSeq(net, IsGet)
GraphqlReqs == SelectSeq(net, IsGraphql)
RestReqs == SelectSeq(net, IsRestReq)

BatchCall == <<"github_stars_batch">>
\* the calls github_stars(items[1]), ..., github_stars(items[n])
RestCallsTo(n) == [i \in 1..n |-> <<"github_stars", i>>]

\* the per-item loop, or what follows the lookup
PastLookup == pc \in {"stop", "newline", "sort", "table", "done"}

\* what GitHub holds for the repository a link names, 0 when the link names
\* none or GitHub has none of that name
WorldStars(link) ==
    LET r == parse_github_owner_repo(link)
    IN  IF r.some /\ Answer(world, r.val[1], r.val[2]).some
        THEN Answer(world, r.val[1], r.val[2]).val
        ELSE 0

\* what a per-item lookup of link yields: the count GitHub holds when the
\* REST endpoint answers, 0 otherwise
RestStars(link) == IF rest_mode = "up" THEN WorldStars(link) ELSE 0

\* C7: when the registry fetch fails or the fetched text does not parse, the
\* command ends with a non-zero exit after at most one GET of the registry,
\* and in that run no lookup is called, no lookup request is issued, the
\* spinner is not started and nothing is printed to stdout.
C7_FatalErrors ==
    /\ (\E i \in 1..Len(net) : net[i].kind = "GET" /\ ~net[i].ok) => exit = "exit1"
    /\ (yaml.some /\ ~yaml.val.valid /\ pc # "parse") => exit = "err"
    /\ exit \in {"exit1", "err"} =>
          /\ pc = "exited"
          /\ Len(Gets) <= 1
          /\ GraphqlReqs = <<>> /\ RestReqs = <<>>
          /\ calls = <<>>
          /\ ~spinner_started
          /\ stdout = <<>>

\* the text did not parse: one GET, exit by the error
C7_Witness ==
    /\ exit = "err"
    /\ yaml = Some(InvalidYaml)
    /\ Len(net) = 1 /\ net[1].kind = "GET" /\ net[1].ok

\* C3: without a token no GraphQL request is issued and github_stars is
\* called for every entry, in order; with a token github_stars_batch is
\* called first, and github_stars is called (and a REST request issued) only
\* after github_stars_batch has returned an error.
C3_PathSelection ==
    /\ ~token.some =>
          /\ GraphqlReqs = <<>>
          /\ ~InSeq(BatchCall, calls)
          /\ PastLookup => calls = RestCallsTo(Len(items))
          /\ pc = "rest" => calls = RestCallsTo(Len(detailed))
    /\ token.some =>
          /\ (pc # "lookup" /\ pc # "batch") => (calls # <<>> /\ calls[1] = BatchCall)
          /\ (Len(calls) > 1 \/ RestReqs # <<>>) =>
                (batch_ret = Done(Err) /\ calls[1] = BatchCall)

\* no token, two entries, both looked up over REST
C3_Witness ==
    /\ ~token.some
    /\ pc = "sort"
    /\ Len(items) = 2
    /\ calls = RestCallsTo(2)
    /\ Len(RestReqs) = 2

\* C2: with a token, once a chunk's request has failed no later chunk is
\* requested, github_stars_batch has returned an error, the warning flag is
\* set, github_stars is called once for every entry in order (the entries
\* left out of the bulk request too), and every row's stars are what its own
\* per-item lookup yielded, whatever the earlier chunks had answered.
C2_BulkFailure ==
    LET g == GraphqlReqs
    IN  (token.some /\ \E k \in 1..Len(g) : ~g[k].ok) =>
          /\ \A k \in 1..Len(g) : ~g[k].ok <=> k = Len(g)
          /\ batch_ret = Done(Err)
          /\ pc \in {"rest", "stop", "newline", "sort"} =>
                /\ warn_graphql_failed
                /\ calls = <<BatchCall>> \o RestCallsTo(Len(detailed))
                /\ \A i \in 1..Len(detailed) :
                      detailed[i][1] = items[i][1] /\ detailed[i][2] = items[i][2]
                /\ \A l \in { items[i][2] : i \in 1..Len(items) } :
                      LET n == RestStars(l)
                      IN  \A i \in 1..Len(detailed) :
                             detailed[i][2] = l => detailed[i][3] = n
          /\ pc \in {"stop", "newline", "sort"} => Len(detailed) = Len(items)

\* the first chunk was answered, the second failed, the REST endpoint is
\* down: every one of the entries, more than a chunk, has 0 stars
C2_Witness ==
    /\ pc = "sort"
    /\ token.some
    /\ Len(GraphqlReqs) = 2
    /\ GraphqlReqs[1].ok /\ ~GraphqlReqs[2].ok
    /\ UrlAB \in DOMAIN out /\ out[UrlAB] > 0
    /\ rest_mode = "down"
    /\ Len(items) > ChunkSize
    /\ Len(detailed) = Len(items)
    /\ \E i \in 1..Len(items) : ~parse_github_owner_repo(items[i][2]).some
    /\ \A i \in 1..Len(detailed) : detailed[i][3] = 0

\* C1: once the registry is parsed the command does not end by an error; its
\* loops are never left without their next turn; every entry gets one row
\* with a natural number of stars, 0 when its link does not resolve, GitHub
\* has no such repository or its lookup failed; done, the exit is a success.
IsDecimal(str) == Len(str) > 0 /\ \A i \in 1..Len(str) : InSeq(str[i], Digits)

CountOf(x, seq) == Cardinality({ i \in 1..Len(seq) : seq[i] = x })

\* the entry's lookup cannot have yielded a count
LookupFailed(link) ==
    \/ ~parse_github_owner_repo(link).some
    \/ WorldStars(link) = 0
    \/ (Len(calls) > 1 /\ rest_mode # "up")
    \/ (~token.some /\ rest_mode # "up")

C1_BestEffort ==
    /\ (yaml.some /\ yaml.val.valid /\ pc # "parse") =>
          /\ exit \in {"running", "ok"}
          /\ pc # "exited"
    /\ pc = "batch_ret" => batch_ret.done
    /\ pc = "chunk" => chunks_done < NumChunks(entries)
    /\ pc = "rest" => Len(detailed) < Len(items)
    /\ pc \in {"stop", "newline", "sort", "table", "done"} =>
          /\ Len(detailed) = Len(items)
          /\ \A i \in 1..Len(detailed) : detailed[i][3] \in Nat
          /\ \A l \in { items[i][2] : i \in 1..Len(items) } :
                /\ CountOf(l, Links(detailed)) = CountOf(l, Links(items))
                /\ LookupFailed(l) =>
                      \A i \in 1..Len(detailed) :
                         detailed[i][2] = l => detailed[i][3] = 0
    /\ pc = "done" =>
          /\ exit = "ok"
          /\ stdout[1].kind = "table"
          /\ LET rows == stdout[1].rows
             IN  /\ Len(rows) = Len(items)
                 /\ \A i \in 1..Len(rows) :
                       /\ IsDecimal(rows[i].stars)
                       /\ rows[i].stars = DecStr(detailed[i][3])
                       /\ rows[i].link = detailed[i][2]

\* done with success after the bulk path failed and every per-item request
\* failed too: three rows, every one with 0 stars
C1_Witness ==
    /\ pc = "done"
    /\ exit = "ok"
    /\ token.some
    /\ warn_graphql_failed
    /\ rest_mode = "down"
    /\ Len(items) = 3
    /\ Len(stdout[1].rows) = 3
    /\ \A i \in 1..3 : stdout[1].rows[i].stars = <<"0">>
    /\ \E p \in DOMAIN world : world[p].found /\ world[p].stars > 0

\* the links of the entries that resolve, in the order of the entries
ResolvableLinks ==
    LET Resolves(l) == parse_github_owner_repo(l).some
    IN  SelectSeq(Links(items), Resolves)

BatchReturnedOk == batch_ret.done /\ batch_ret.val.ok

\* C5: when github_stars_batch has returned Ok for N >= 1 links that
\* resolve, it has issued ceil(N / 50) requests and no other; every request
\* was answered; every query but the last holds 50 repositories, the last the
\* rest; the repositories of the queries, one query after the other, are the
\* (owner, repo) of the links that resolve, in the order of the input, so
\* that a link that does not resolve is in no query.
C5_Chunking ==
    LET g == GraphqlReqs
        res == ResolvableLinks
        N == Len(res)
    IN  (BatchReturnedOk /\ N >= 1) =>
          /\ (Len(g) - 1) * ChunkSize < N /\ N <= Len(g) * ChunkSize
          /\ RestReqs = <<>>
          /\ \A k \in 1..Len(g) :
                /\ g[k].ok
                /\ Len(g[k].query) <= ChunkSize
                /\ k < Len(g) => Len(g[k].query) = ChunkSize
          /\ Len(g[Len(g)].query) = N - (Len(g) - 1) * ChunkSize
          /\ \A l \in { res[i] : i \in 1..N } :
                LET r == parse_github_owner_repo(l).val
                IN  \A i \in 1..N :
                       res[i] = l =>
                          LET q == g[((i - 1) \div ChunkSize) + 1].query
                              e == q[((i - 1) % ChunkSize) + 1]
                          IN  e.owner = r[1] /\ e.name = r[2]

\* MaxBig links that resolve: three requests, of 50, 50 and the rest
C5_Witness ==
    /\ BatchReturnedOk
    /\ Len(ResolvableLinks) = MaxBig
    /\ Len(GraphqlReqs) = 3
    /\ Len(GraphqlReqs[1].query) = ChunkSize
    /\ Len(GraphqlReqs[2].query) = ChunkSize
    /\ Len(GraphqlReqs[3].query) = MaxBig - 2 * ChunkSize

\* C6: in every query, as the bulk path goes (the queries do not change
\* after it), the repository at place i (from 0) has the alias r<i>,
\* so the aliases of a query are distinct and start again at r0 in the next;
\* the count recorded for a link is the one GitHub holds for the repository
\* the link names (0 when it has none), whatever the order of the keys in
\* the answers.
C6_AliasMatching ==
    /\ pc \in {"chunk", "batch_ret"} =>
          \A k \in 1..Len(GraphqlReqs) :
             LET q == GraphqlReqs[k].query
             IN  /\ \A i \in 1..Len(q) : q[i].alias = <<"r">> \o DecStr(i - 1)
                 /\ \A i, j \in 1..Len(q) : i # j => q[i].alias # q[j].alias
    /\ \A l \in DOMAIN out :
          parse_github_owner_repo(l).some /\ out[l] = WorldStars(l)
    /\ BatchReturnedOk =>
          \A l \in DOMAIN batch_ret.val.val : batch_ret.val.val[l] = WorldStars(l)

\* two chunks answered: a link of the first and one of the second have the
\* counts of their own repositories, which differ
C6_Witness ==
    /\ pc = "chunk"
    /\ chunks_done = 2
    /\ Len(entries) > 2 * ChunkSize
    /\ entries[1][1] = UrlAB
    /\ entries[ChunkSize + 1][1] = UrlC
    /\ UrlAB \in DOMAIN out /\ UrlC \in DOMAIN out
    /\ out[UrlAB] = MaxStars /\ out[UrlC] = 0
    /\ out[UrlAB] # out[UrlC]

\* C4: whenever github_stars_batch returns Ok, its map has a key for every
\* input link that resolves, with the count the answer holds for the link's
\* repository, 0 when it holds none.
C4_BatchMapCoversResolvable ==
    (pc = "batch_ret" /\ BatchReturnedOk) =>
        \A l \in { items[i][2] : i \in 1..Len(items) } :
            parse_github_owner_repo(l).some =>
               /\ l \in DOMAIN batch_ret.val.val
               /\ batch_ret.val.val[l] = WorldStars(l)

\* C11: a GitHub link, in HTTPS form or in SSH shorthand, made of the host
\* and of one owner segment, with or without a slash after it, resolves to
\* that owner with the repo equal to the owner; and no link resolves to an
\* empty repo.
IsOwnerName(s) ==
    Len(s) > 0 /\ \A i \in 1..Len(s) : IsAlpha(s[i]) \/ InSeq(s[i], Digits)

GithubHeads ==
    { Https \o GithubCom \o <<"/">>,
      <<"h","t","t","p",":","/","/">> \o GithubCom \o <<"/">>,
      SshPrefix }

\* what follows the host, without the one slash that may end it
AfterHead(link, head) ==
    LET rest == StripPrefix(link, head)
    IN  IF ~rest.some THEN None
        ELSE Some(IF EndsWith(rest.val, <<"/">>)
                  THEN SubSeq(rest.val, 1, Len(rest.val) - 1)
                  ELSE rest.val)

OwnerOnly(link) ==
    \E head \in GithubHeads :
        AfterHead(link, head).some /\ IsOwnerName(AfterHead(link, head).val)

OwnerOf(link) ==
    LET head == CHOOSE h \in GithubHeads : AfterHead(link, h).some
    IN  AfterHead(link, head).val

C11_OwnerOnlyHeuristic ==
    r_bulk.done =>
        /\ OwnerOnly(r_link) =>
              /\ r_bulk.val.some
              /\ ToLower(r_bulk.val.val[1]) = ToLower(OwnerOf(r_link))
              /\ r_bulk.val.val[2] = r_bulk.val.val[1]
        /\ r_bulk.val.some => r_bulk.val.val[2] # <<>>

\* C12: the flag of the spinner changes only by cmd_hub setting it, once, after
\* the lookup has returned with a count for every entry, bulk or per item;
\* once it is set the thread's loop ends, at the latest with the process; and
\* on stderr no frame of the spinner follows the newline cmd_hub prints after
\* setting the flag.
C12_FlagStep ==
    spinner_stop' # spinner_stop =>
        /\ ~spinner_stop /\ spinner_stop'
        /\ pc = "stop" /\ pc' = "newline"
        /\ spinner_thread' = spinner_thread
        /\ Len(detailed) = Len(items)
        /\ token.some => batch_ret.done

C12_NoFrameAfterNewline ==
    \A i, j \in 1..Len(stderr) :
        (i < j /\ stderr[i].kind = "newline") => stderr[j].kind # "frame"

C12_LoopExits ==
    spinner_stop ~> (spinner_thread.at = "exited" \/ exit # "running")

C12_SpinnerPhase ==
    /\ [][C12_FlagStep]_vars
    /\ []C12_NoFrameAfterNewline
    /\ C12_LoopExits

====
